---- MODULE Spec2Model ----
(***************************************************************************)
(* Model of src/main.py (InvoiceProcessor): the IMAP listen loop with its  *)
(* bounded reconnection, the per-message pipeline (decode, analysis,       *)
(* ledger write, summary) and the ledger writer's per-item validation.     *)
(***************************************************************************)
EXTENDS Integers, Sequences, FiniteSets, TLC

(***************************************************************************)
(* Program constant and model bounds.                                      *)
(***************************************************************************)
MAX_RECONNECT_ATTEMPTS == 5

NumMsgs == 2
MaxAttachments == 2
MaxItems == 2
MaxSessions == 2
MaxFaults == 1
MaxRows == 3
MaxParts == 2

Msgs == 1..NumMsgs

(***************************************************************************)
(* Values of the reasoning service's JSON: a date or an amount is a JSON   *)
(* string, a JSON number, null, or the key is absent from the object.      *)
(* Strings are sequences of one-character strings.                         *)
(***************************************************************************)
Digits == <<"0", "1", "2", "3", "4", "5", "6", "7", "8", "9">>

IsDigit(c) == \E i \in 1..10 : Digits[i] = c

DigitVal(c) == (CHOOSE i \in 1..10 : Digits[i] = c) - 1

RECURSIVE NumVal(_)
NumVal(s) ==
    IF s = <<>> THEN 0
    ELSE 10 * NumVal(SubSeq(s, 1, Len(s) - 1)) + DigitVal(s[Len(s)])

AllDigits(s) == \A i \in 1..Len(s) : IsDigit(s[i])

\* the fields of s between the separators sep, in order
RECURSIVE SplitOn(_, _)
SplitOn(s, sep) ==
    IF \A i \in 1..Len(s) : s[i] # sep THEN <<s>>
    ELSE LET k == CHOOSE i \in 1..Len(s) :
                     s[i] = sep /\ \A j \in 1..(i - 1) : s[j] # sep
         IN <<SubSeq(s, 1, k - 1)>> \o SplitOn(SubSeq(s, k + 1, Len(s)), sep)

IsLeap(y) == (y % 4 = 0 /\ y % 100 # 0) \/ y % 400 = 0

DaysInMonth(y, m) ==
    IF m = 2 THEN (IF IsLeap(y) THEN 29 ELSE 28)
    ELSE IF m \in {4, 6, 9, 11} THEN 30 ELSE 31

\* datetime.strptime(s, "%Y-%m-%d"): %Y is four digits, %m and %d one or
\* two digits; the result must be a calendar date.  ok = FALSE stands for
\* the ValueError.
strptime(s) ==
    LET f == SplitOn(s, "-")
        wellFormed ==
            /\ Len(f) = 3
            /\ Len(f[1]) = 4 /\ AllDigits(f[1])
            /\ Len(f[2]) \in 1..2 /\ AllDigits(f[2])
            /\ Len(f[3]) \in 1..2 /\ AllDigits(f[3])
    IN IF ~wellFormed THEN [ok |-> FALSE, y |-> 0, m |-> 0, d |-> 0]
       ELSE LET y == NumVal(f[1])
                m == NumVal(f[2])
                d == NumVal(f[3])
            IN IF y >= 1 /\ m \in 1..12 /\ d >= 1 /\ d <= DaysInMonth(y, m)
               THEN [ok |-> TRUE, y |-> y, m |-> m, d |-> d]
               ELSE [ok |-> FALSE, y |-> 0, m |-> 0, d |-> 0]

Pad2(n) == <<Digits[(n \div 10) + 1], Digits[(n % 10) + 1]>>

Pad4(n) == Pad2(n \div 100) \o Pad2(n % 100)

\* the decimal digits of n, without leading zeros
RECURSIVE Decimal(_)
Decimal(n) ==
    IF n < 10 THEN <<Digits[n + 1]>>
    ELSE Decimal(n \div 10) \o <<Digits[(n % 10) + 1]>>

\* %Y of the C library's strftime, which date_obj.strftime hands the format
\* to: whether a year below 1000 is zero-filled to four digits depends on
\* the platform (glibc does not fill, and Python 3.11 passes its result on)
YearField(y, padsYear) == IF padsYear THEN Pad4(y) ELSE Decimal(y)

\* date_obj.strftime("%Y-%m-%d")
strftime(t, padsYear) ==
    YearField(t.y, padsYear) \o <<"-">> \o Pad2(t.m) \o <<"-">> \o Pad2(t.d)

(***************************************************************************)
(* Line items and the ledger writer (add_to_spreadsheet).                  *)
(***************************************************************************)
Chars(y4, sep, m, d) == y4 \o <<sep>> \o m \o <<sep>> \o d

DateIso == [type |-> "string", text |-> Chars(<<"2","0","2","4">>, "-", <<"0","3">>, <<"0","1">>)]
DateUnpadded == [type |-> "string", text |-> Chars(<<"2","0","2","4">>, "-", <<"3">>, <<"1">>)]
DateSlashed == [type |-> "string", text |-> Chars(<<"0","1">>, "/", <<"0","3">>, <<"2","0","2","4">>)]
DateNoSuchDay == [type |-> "string", text |-> Chars(<<"2","0","2","3">>, "-", <<"0","2">>, <<"2","9">>)]
DateEarlyYear == [type |-> "string", text |-> Chars(<<"0","9","9","9">>, "-", <<"0","1">>, <<"0","1">>)]
DateNull == [type |-> "null", text |-> <<>>]
DateAbsent == [type |-> "absent", text |-> <<>>]

AmountNumber == [type |-> "number", numeric |-> TRUE, val |-> -120]
AmountNumericString == [type |-> "string", numeric |-> TRUE, val |-> 45]
AmountWords == [type |-> "string", numeric |-> FALSE, val |-> 0]
AmountNull == [type |-> "null", numeric |-> FALSE, val |-> 0]
AmountAbsent == [type |-> "absent", numeric |-> FALSE, val |-> 0]

\* the (date, amount) pairs the reasoning service's items are drawn from
ItemInputs ==
    { [date |-> DateIso, amount |-> AmountNumber],
      [date |-> DateIso, amount |-> AmountWords],
      [date |-> DateIso, amount |-> AmountNull],
      [date |-> DateSlashed, amount |-> AmountNumber] }

\* a response of n items: item i carries description i
Responses ==
    UNION { { [i \in 1..n |-> [date |-> f[i].date, amount |-> f[i].amount,
                               description |-> i]] :
              f \in [1..n -> ItemInputs] } : n \in 0..MaxItems }

\* the exception the validation of one item raises (lines 405-409), "none"
\* when the row can be built: item["date"] and item["amount"] raise KeyError
\* on an absent key, strptime and float raise TypeError on None and
\* ValueError on a string they cannot parse
ItemException(item) ==
    IF item.date.type = "absent" THEN "KeyError"
    ELSE IF item.date.type = "null" THEN "TypeError"
    ELSE IF ~strptime(item.date.text).ok THEN "ValueError"
    ELSE IF item.amount.type = "absent" THEN "KeyError"
    ELSE IF item.amount.type = "null" THEN "TypeError"
    ELSE IF ~item.amount.numeric THEN "ValueError"
    ELSE "none"

\* row_data (lines 412-418)
RowData(item, padsYear) ==
    [date |-> strftime(strptime(item.date.text), padsYear),
     description |-> item.description,
     amount |-> item.amount.val]

\* except (ValueError, KeyError) (line 424)
CaughtPerItem(exc) == exc \in {"ValueError", "KeyError"}

\* f"Error adding item {item}: {str(e)}" (line 425)
ItemError(item, exc) ==
    [kind |-> "item", description |-> item.description, exc |-> exc]

\* f"General error updating spreadsheet: {str(e)}" (line 431)
GeneralError(exc) == [kind |-> "general", description |-> 0, exc |-> exc]

OuterHandlerKeepsErrors(added, errs, ws, exc) ==
    [added_rows |-> added, errors |-> Append(errs, GeneralError(exc)),
     worksheet |-> ws]

\* except Exception (lines 429-431)
OuterHandler(added, errs, ws, exc) ==
    [added_rows |-> added, errors |-> <<GeneralError(exc)>>, worksheet |-> ws]

InsertRowFirst(ws, row) == <<row>> \o ws

\* self.worksheet.append_row(row_data) (line 421): the row becomes the last
\* row of the sheet
AppendRow(ws, row) == Append(ws, row)

\* the for loop of add_to_spreadsheet from item i on (lines 401-428);
\* failAt is the append_row call of this invocation that raises (0: none),
\* and append_row raises as well on a sheet that already holds MaxRows rows;
\* padsYear is the platform's rendering of %Y
RECURSIVE AddLoop(_, _, _, _, _, _, _)
AddLoop(items, i, added, errs, ws, failAt, padsYear) ==
    IF i > Len(items)
    THEN [added_rows |-> added, errors |-> errs, worksheet |-> ws]
    ELSE LET exc == ItemException(items[i])
         IN IF exc = "none"
            THEN IF Len(added) + 1 = failAt \/ Len(ws) >= MaxRows
                 THEN OuterHandler(added, errs, ws, "StoreError")
                 ELSE AddLoop(items, i + 1,
                              Append(added, RowData(items[i], padsYear)), errs,
                              AppendRow(ws, RowData(items[i], padsYear)), failAt,
                              padsYear)
            ELSE IF CaughtPerItem(exc)
                 THEN AddLoop(items, i + 1, added,
                              Append(errs, ItemError(items[i], exc)), ws,
                              failAt, padsYear)
                 ELSE OuterHandler(added, errs, ws, exc)

add_to_spreadsheet(items, ws, failAt, padsYear) ==
    AddLoop(items, 1, <<>>, <<>>, ws, failAt, padsYear)

(***************************************************************************)
(* State of the process.                                                   *)
(***************************************************************************)
VARIABLES
    pc,                  \* position of the main thread
    reconnect_attempts,  \* local of listen_for_emails
    mail,                \* self.mail: NoSession or the session it refers to
    sessions,            \* the IMAP sessions opened and not logged out
    idle_event,          \* self.idle_event
    phase,               \* which call of process_pending_emails is running
    seen,                \* the messages of the inbox carrying \Seen
    message_ids,         \* local of process_pending_emails
    idx,                 \* position of its for loop in message_ids
    email_content,       \* local of process_new_message: the message id and
                         \* the attachment files it holds, while they exist
    tmp_live,            \* number of temporary attachment files on disk
    attachment_texts,    \* local of analyze_with_anthropic
    inflight,            \* requests to the reasoning service awaiting a reply
    line_items,          \* local of process_new_message
    added_rows,          \* local of process_new_message
    errors,              \* local of process_new_message
    worksheet,           \* the rows of the ledger sheet
    failure,             \* the last error logged for the current message
    started,             \* history: messages the current scan began to process
    results,             \* history: how each of them ended
    consecutive_failures,\* history: failed connects since the last success
    analysis_calls,      \* history: reasoning-service calls per message
    ledger_calls,        \* history: add_to_spreadsheet calls per message
    completed,           \* history: messages that reached line 98
    analysis_failed,     \* history: messages whose analysis gave [] on the
                         \* paths of lines 376-384
    send_calls,          \* history: calls of send_summary_email per message
    faults               \* history: the faults below that happened so far

vars == <<pc, reconnect_attempts, mail, sessions, idle_event, phase, seen,
          message_ids, idx, email_content, tmp_live, attachment_texts,
          inflight, line_items, added_rows, errors, worksheet, failure,
          started, results, consecutive_failures, analysis_calls,
          ledger_calls, completed, analysis_failed, send_calls,
          faults>>

NoSession == 0

NoContent == [id |-> 0, attachments |-> 0]

MessagePcs == {"fetch", "extract", "await", "ledger", "notify"}

Terminal == {"failed", "exited"}

conn == <<reconnect_attempts, mail, sessions, consecutive_failures>>

scanv == <<message_ids, idx, started, results>>

pipeline == <<email_content, tmp_live, attachment_texts, inflight, line_items,
              added_rows, errors, failure>>

durable == <<seen, worksheet, analysis_calls, ledger_calls, completed,
             analysis_failed, send_calls>>

\* while reconnect_attempts < MAX_RECONNECT_ATTEMPTS (line 518)
LoopCondition(attempts) == attempts < MAX_RECONNECT_ATTEMPTS

\* the loop test: the next iteration connects; when the loop ends the
\* critical record is logged and listen_for_emails returns (lines 564-566)
LoopHead(attempts) == IF LoopCondition(attempts) THEN "connect" ELSE "failed"

Init ==
    /\ pc = LoopHead(0)
    /\ reconnect_attempts = 0
    /\ mail = NoSession
    /\ sessions = {}
    /\ idle_event = FALSE
    /\ phase = "initial"
    /\ seen = {}
    /\ message_ids = <<>>
    /\ idx = 0
    /\ email_content = NoContent
    /\ tmp_live = 0
    /\ attachment_texts = <<>>
    /\ inflight = 0
    /\ line_items = <<>>
    /\ added_rows = <<>>
    /\ errors = <<>>
    /\ worksheet = <<>>
    /\ failure = "none"
    /\ started = <<>>
    /\ results = <<>>
    /\ consecutive_failures = 0
    /\ analysis_calls = [m \in Msgs |-> 0]
    /\ ledger_calls = [m \in Msgs |-> 0]
    /\ completed = {}
    /\ analysis_failed = {}
    /\ send_calls = [m \in Msgs |-> 0]
    /\ faults = 0

(***************************************************************************)
(* Connection lifecycle: listen_for_emails, connect_to_gmail,              *)
(* cleanup_connection and the handlers of __main__.                        *)
(***************************************************************************)
\* The faults counted by the variable faults, at most MaxFaults of them in
\* a run: close() raising in cleanup_connection, STORE answered NO, and an
\* exception in get_email_content after a temporary file was written.
FaultAllowed == faults < MaxFaults

\* cleanup_connection (lines 568-576): close() and logout() share one try,
\* so that logout() is not reached when close() raises; closeOk is whether
\* close() returned
SessionsAfterCleanup(closeOk) ==
    IF mail # NoSession /\ closeOk THEN sessions \ {mail} ELSE sessions

Cleanup(closeOk) ==
    /\ ~closeOk => (mail # NoSession /\ FaultAllowed)
    /\ sessions' = SessionsAfterCleanup(closeOk)
    /\ mail' = NoSession
    /\ faults' = IF closeOk THEN faults ELSE faults + 1

\* except Exception of the listen loop (lines 558-562)
ExceptHandler(closeOk) ==
    /\ Cleanup(closeOk)
    /\ reconnect_attempts' = reconnect_attempts + 1
    /\ consecutive_failures' = consecutive_failures
    /\ pc' = "sleep"

\* connect_to_gmail returned None (lines 75-77, 524-528)
ConnectFails ==
    /\ pc = "connect"
    /\ mail' = NoSession
    /\ reconnect_attempts' = reconnect_attempts + 1
    /\ consecutive_failures' = consecutive_failures + 1
    /\ pc' = "sleep"
    /\ UNCHANGED <<sessions, idle_event, phase, scanv, pipeline, durable,
                   faults>>

\* connect_to_gmail returned a session (lines 72-74, 522, 531)
ConnectSucceeds ==
    /\ pc = "connect"
    /\ Cardinality(sessions) < MaxSessions
    /\ LET s == CHOOSE n \in 1..MaxSessions :
                    n \notin sessions /\ \A k \in 1..(n - 1) : k \in sessions
       IN /\ sessions' = sessions \cup {s}
          /\ mail' = s
    /\ reconnect_attempts' = 0
    /\ consecutive_failures' = 0
    /\ pc' = "select"
    /\ UNCHANGED <<idle_event, phase, scanv, pipeline, durable, faults>>

\* time.sleep(RECONNECT_DELAY), then the next iteration (lines 527-528, 562)
Sleep ==
    /\ pc = "sleep"
    /\ pc' = LoopHead(reconnect_attempts)
    /\ UNCHANGED <<conn, idle_event, phase, scanv, pipeline, durable, faults>>

\* self.mail.select("inbox") (line 534)
SelectReturns ==
    /\ pc = "select"
    /\ pc' = "scan"
    /\ phase' = "initial"
    /\ UNCHANGED <<conn, idle_event, scanv, pipeline, durable, faults>>

SelectRaises ==
    /\ pc = "select"
    /\ \E closeOk \in BOOLEAN : ExceptHandler(closeOk)
    /\ UNCHANGED <<idle_event, phase, scanv, pipeline, durable>>

\* process_pending_emails has returned: its locals are gone
DropScanLocals ==
    /\ message_ids' = <<>> /\ idx' = 0 /\ started' = <<>> /\ results' = <<>>
    /\ failure' = "none"
    /\ UNCHANGED <<email_content, tmp_live, attachment_texts, inflight,
                   line_items, added_rows, errors>>

\* self.idle_event.clear() (line 542)
ClearEvent ==
    /\ pc = "clear"
    /\ idle_event' = FALSE
    /\ pc' = "while"
    /\ DropScanLocals
    /\ UNCHANGED <<conn, phase, durable, faults>>

\* while not self.idle_event.is_set() (line 544): enter the wait
WhileEnter ==
    /\ pc = "while"
    /\ ~idle_event
    /\ pc' = "idle"
    /\ UNCHANGED <<conn, idle_event, phase, scanv, pipeline, durable, faults>>

\* the event is set: the inner loop ends and the outer loop goes on
WhileLeave ==
    /\ pc = "while"
    /\ idle_event
    /\ pc' = LoopHead(reconnect_attempts)
    /\ UNCHANGED <<conn, idle_event, phase, scanv, pipeline, durable, faults>>

\* self.mail.idle(...) returned, on a new message or on timeout (line 546)
IdleReturns ==
    /\ pc = "idle"
    /\ pc' = "scan"
    /\ phase' = "loop"
    /\ UNCHANGED <<conn, idle_event, scanv, pipeline, durable, faults>>

IdleRaises ==
    /\ pc = "idle"
    /\ \E closeOk \in BOOLEAN : ExceptHandler(closeOk)
    /\ UNCHANGED <<idle_event, phase, scanv, pipeline, durable>>

\* self.mail.noop() answered OK (lines 552-553)
NoopOk ==
    /\ pc = "noop"
    /\ pc' = "while"
    /\ DropScanLocals
    /\ UNCHANGED <<conn, idle_event, phase, durable, faults>>

\* status != "OK": cleanup_connection and break (lines 553-556)
NoopNotOk ==
    /\ pc = "noop"
    /\ \E closeOk \in BOOLEAN : Cleanup(closeOk)
    /\ pc' = LoopHead(reconnect_attempts)
    /\ DropScanLocals
    /\ UNCHANGED <<reconnect_attempts, consecutive_failures, idle_event,
                   phase, durable>>

NoopRaises ==
    /\ pc = "noop"
    /\ \E closeOk \in BOOLEAN : ExceptHandler(closeOk)
    /\ DropScanLocals
    /\ UNCHANGED <<idle_event, phase, durable>>

\* another thread sets self.idle_event (line 67).  The event is read at
\* line 544 only and cleared at line 542, so a set at any moment of an
\* iteration of the inner loop is a set just before the loop test
SetIdleEvent ==
    /\ pc = "while"
    /\ ~idle_event
    /\ idle_event' = TRUE
    /\ UNCHANGED <<pc, conn, phase, scanv, pipeline, durable, faults>>

\* KeyboardInterrupt reaches __main__ (lines 585-588), through the finally
\* of analyze_with_anthropic when it is raised there: cleanup_connection,
\* and the process ends, the locals of its frames with it
KeyboardInterrupt ==
    /\ pc \notin Terminal
    /\ \E closeOk \in BOOLEAN : Cleanup(closeOk)
    /\ pc' = "exited"
    /\ reconnect_attempts' = 0
    /\ consecutive_failures' = 0
    /\ idle_event' = FALSE
    /\ phase' = "initial"
    /\ message_ids' = <<>> /\ idx' = 0 /\ started' = <<>> /\ results' = <<>>
    /\ email_content' = NoContent
    /\ attachment_texts' = <<>>
    /\ line_items' = <<>>
    /\ added_rows' = <<>>
    /\ errors' = <<>>
    /\ failure' = "none"
    /\ tmp_live' = IF pc \in {"extract", "await"}
                   THEN tmp_live - email_content.attachments
                   ELSE tmp_live
    /\ inflight' = 0
    /\ UNCHANGED durable

(***************************************************************************)
(* The unread scan: process_pending_emails and get_unread_emails.          *)
(***************************************************************************)
\* messages[0].split() of the UNSEEN search: ascending sequence numbers
RECURSIVE Ascending(_)
Ascending(S) ==
    IF S = {} THEN <<>>
    ELSE LET lo == CHOOSE m \in S : \A n \in S : m <= n
         IN <<lo>> \o Ascending(S \ {lo})

MessageAtReversed(ids, i) == ids[Len(ids) - i + 1]

\* the element the for loop of process_pending_emails hands out at
\* position i (lines 500-501)
MessageAt(ids, i) == ids[i]

ContinueScanUntilFailure(ids, i, res) == i < Len(ids) /\ res = "completed"

\* whether the for loop has a further element after position i, res being
\* how the call of process_new_message at position i ended
ContinueScan(ids, i, res) == i < Len(ids)

\* where listen_for_emails goes on when process_pending_emails returns
AfterScan(ph) == IF ph = "initial" THEN "clear" ELSE "noop"

Current == MessageAt(message_ids, idx)

\* get_unread_emails returned the unread messages (lines 108-120)
ScanFinds ==
    /\ pc = "scan"
    /\ LET ids == Ascending(Msgs \ seen)
       IN /\ message_ids' = ids
          /\ results' = <<>>
          /\ IF ids # <<>>
             THEN /\ idx' = 1
                  /\ started' = <<MessageAt(ids, 1)>>
                  /\ pc' = "fetch"
             ELSE /\ idx' = 0
                  /\ started' = <<>>
                  /\ pc' = AfterScan(phase)
    /\ UNCHANGED <<conn, idle_event, phase, pipeline, durable, faults>>

\* the search answered a status other than OK, or select/search raised:
\* get_unread_emails returns [] (lines 111-113, 121-123)
ScanFails ==
    /\ pc = "scan"
    /\ message_ids' = <<>>
    /\ idx' = 0
    /\ started' = <<>>
    /\ results' = <<>>
    /\ pc' = AfterScan(phase)
    /\ UNCHANGED <<conn, idle_event, phase, pipeline, durable, faults>>

\* process_new_message has returned for the message at idx
EndMessage(res) ==
    /\ results' = Append(results, res)
    /\ message_ids' = message_ids
    /\ IF ContinueScan(message_ids, idx, res)
       THEN /\ idx' = idx + 1
            /\ started' = Append(started, MessageAt(message_ids, idx + 1))
            /\ pc' = "fetch"
       ELSE /\ idx' = idx
            /\ started' = started
            /\ pc' = AfterScan(phase)

(***************************************************************************)
(* process_new_message: get_email_content, analyze_with_anthropic,         *)
(* add_to_spreadsheet, send_summary_email.                                 *)
(***************************************************************************)
SeenOnSkipMarked(s, m) == s \cup {m}

\* the messages carrying \Seen when get_email_content returns None for
\* message m: both returns (lines 194 and 276) are reached from statements
\* that precede mail.store (line 257), the last call that can raise
SeenOnSkip(s, m) == s

\* fetch answered a status other than OK, or raised: get_email_content
\* returns None (lines 190-194, 274-276) and process_new_message returns
FetchFails ==
    /\ pc = "fetch"
    /\ failure' = "fetch"
    /\ seen' = SeenOnSkip(seen, Current)
    /\ EndMessage("skipped")
    /\ UNCHANGED <<conn, idle_event, phase, email_content, tmp_live,
                   attachment_texts, inflight, line_items, added_rows, errors,
                   worksheet, analysis_calls, ledger_calls, completed,
                   analysis_failed, send_calls,
                   faults>>

\* an exception while the message is decoded, after k temporary files were
\* written (parsing, payload write, mail.store): the handler of lines
\* 274-276 returns None
DecodeRaises ==
    /\ pc = "fetch"
    /\ \E k \in 0..MaxAttachments :
          /\ k > 0 => FaultAllowed
          /\ tmp_live' = tmp_live + k
          /\ faults' = IF k > 0 THEN faults + 1 ELSE faults
    /\ failure' = "decode"
    /\ seen' = SeenOnSkip(seen, Current)
    /\ EndMessage("skipped")
    /\ UNCHANGED <<conn, idle_event, phase, email_content, attachment_texts,
                   inflight, line_items, added_rows, errors, worksheet,
                   analysis_calls, ledger_calls, completed, analysis_failed,
                   send_calls>>

\* A header as email.header.decode_header returns it: a sequence of parts
\* (content, encoding).  The content is a str, or bytes with no charset, a
\* charset Python knows or one it does not know ("unknown-8bit" for raw
\* 8-bit bytes in a header); valid says whether the bytes are well-formed in
\* the charset they are decoded with.
HeaderParts ==
    {[bytes |-> FALSE, encoding |-> "none", valid |-> TRUE]}
        \cup [bytes : {TRUE}, encoding : {"none", "known", "unknown"},
              valid : BOOLEAN]

Headers == UNION {[1..n -> HeaderParts] : n \in 1..MaxParts}

HeaderNames == {"Subject", "From", "Date", "filename"}

\* one pass of the loop of decode_email_header (lines 129-136):
\* content.decode(encoding) is strict, and only bytes without a charset are
\* decoded with errors="replace"
DecodePart(part) ==
    IF ~part.bytes THEN "text"
    ELSE IF part.encoding = "none"
         THEN (IF part.valid THEN "text" ELSE "replaced")
         ELSE IF part.encoding = "unknown" THEN "LookupError"
              ELSE IF part.valid THEN "text" ELSE "UnicodeDecodeError"

\* decode_email_header (lines 125-137): the exception it raises ("none"
\* when it returns) and the parts of the string it returns
decode_email_header(h) ==
    LET r == [i \in 1..Len(h) |-> DecodePart(h[i])]
        bad == {i \in 1..Len(h) : r[i] \in {"LookupError", "UnicodeDecodeError"}}
    IN IF bad = {} THEN [raises |-> "none", text |-> r]
       ELSE [raises |-> r[CHOOSE i \in bad : \A j \in bad : i <= j],
             text |-> <<>>]

\* decode_email_header raises for a header of the message (lines 199-202,
\* 230): the handler of lines 274-276 returns None.  Subject, From and Date
\* are decoded before any attachment is written; the filename of an
\* attachment is decoded after the k attachments before it were written.
HeaderRaises ==
    /\ pc = "fetch"
    /\ \E name \in HeaderNames, h \in Headers :
          /\ decode_email_header(h).raises # "none"
          /\ \E k \in (IF name = "filename" THEN 0..(MaxAttachments - 1)
                                            ELSE {0}) :
                /\ k > 0 => FaultAllowed
                /\ tmp_live' = tmp_live + k
                /\ faults' = IF k > 0 THEN faults + 1 ELSE faults
    /\ failure' = "header"
    /\ seen' = SeenOnSkip(seen, Current)
    /\ EndMessage("skipped")
    /\ UNCHANGED <<conn, idle_event, phase, email_content, attachment_texts,
                   inflight, line_items, added_rows, errors, worksheet,
                   analysis_calls, ledger_calls, completed, analysis_failed,
                   send_calls>>

\* whether the flag is set by mail.store(message_id, "+FLAGS", "\\Seen"),
\* whose status line 257 does not look at
StoreSetsSeen(status) == status = "OK"

\* the message was decoded with n attachments, each written to a temporary
\* file, and mail.store returned (lines 196-273)
DecodeReturns ==
    /\ pc = "fetch"
    /\ \E n \in 0..MaxAttachments :
          /\ tmp_live' = tmp_live + n
          /\ email_content' = [id |-> Current, attachments |-> n]
    /\ \E status \in {"OK", "NO"} :
          /\ status = "NO" => FaultAllowed
          /\ seen' = IF StoreSetsSeen(status) THEN seen \cup {Current} ELSE seen
          /\ faults' = IF status = "NO" THEN faults + 1 ELSE faults
    /\ failure' = "none"
    /\ pc' = "extract"
    /\ UNCHANGED <<conn, idle_event, phase, scanv, attachment_texts, inflight,
                   line_items, added_rows, errors, worksheet, analysis_calls,
                   ledger_calls, completed, analysis_failed,
                   send_calls>>

\* extract_text_from_attachment (lines 139-185): an exception while the
\* file is read is caught at line 183 and a placeholder string is returned
extract_text_from_attachment(fails) == IF fails THEN "placeholder" ELSE "text"

RECURSIVE AttachmentTextsSkippingFailed(_, _)
AttachmentTextsSkippingFailed(n, F) ==
    IF n = 0 THEN <<>>
    ELSE AttachmentTextsSkippingFailed(n - 1, F)
         \o (IF n \in F THEN <<>>
             ELSE <<[filename |-> n,
                     content |-> extract_text_from_attachment(FALSE)]>>)

\* attachment_texts after the loop of lines 283-306 over n attachments, F
\* being those whose extraction fails: one entry per attachment, in order
AttachmentTexts(n, F) ==
    [i \in 1..n |->
        [filename |-> i, content |-> extract_text_from_attachment(i \in F)]]

\* the extraction of every attachment (lines 283-306), then the request is
\* sent (line 356)
ExtractAndRequest ==
    /\ pc = "extract"
    /\ \E F \in SUBSET (1..email_content.attachments) :
          attachment_texts' = AttachmentTexts(email_content.attachments, F)
    /\ inflight' = inflight + 1
    /\ analysis_calls' =
          [analysis_calls EXCEPT ![email_content.id] = @ + 1]
    /\ pc' = "await"
    /\ UNCHANGED <<conn, idle_event, phase, scanv, email_content, tmp_live,
                   line_items, added_rows, errors, failure, seen, worksheet,
                   ledger_calls, completed, analysis_failed, send_calls,
                   faults>>

\* finally of analyze_with_anthropic (lines 385-393): os.unlink of every
\* attachment path of email_content
FilesAfterFinally == tmp_live - email_content.attachments

AnalysisEnds(items, fail) ==
    /\ pc = "await"
    /\ line_items' = items
    /\ failure' = fail
    /\ tmp_live' = FilesAfterFinally
    /\ email_content' = [email_content EXCEPT !.attachments = 0]
    /\ inflight' = inflight - 1
    /\ attachment_texts' = <<>>
    /\ analysis_failed' = IF fail = "none" THEN analysis_failed
                          ELSE analysis_failed \cup {email_content.id}
    /\ pc' = "ledger"
    /\ UNCHANGED <<conn, idle_event, phase, scanv, added_rows, errors, seen,
                   worksheet, analysis_calls, ledger_calls, completed,
                   send_calls, faults>>

\* the response holds a JSON array of at least one object (lines 366-372)
AnalysisReturnsItems == \E r \in Responses \ {<<>>} : AnalysisEnds(r, "none")

\* no array of objects in the response, or it does not parse (lines 373-380)
AnalysisNoJson == AnalysisEnds(<<>>, "nojson")

\* the call raised (lines 382-384)
AnalysisRaises == AnalysisEnds(<<>>, "analysis")

\* add_to_spreadsheet(line_items) (line 93); line_items is not read again
AddToSpreadsheet ==
    /\ pc = "ledger"
    /\ line_items' = <<>>
    /\ \E failAt \in 0..Len(line_items), padsYear \in BOOLEAN :
          LET r == add_to_spreadsheet(line_items, worksheet, failAt, padsYear)
          IN /\ added_rows' = r.added_rows
             /\ errors' = r.errors
             /\ worksheet' = r.worksheet
             /\ failure' = IF \E i \in 1..Len(r.errors) :
                                    r.errors[i].kind = "general"
                           THEN "ledger"
                           ELSE IF r.errors # <<>> THEN "item" ELSE "none"
    /\ ledger_calls' = [ledger_calls EXCEPT ![email_content.id] = @ + 1]
    /\ pc' = "notify"
    /\ UNCHANGED <<conn, idle_event, phase, scanv, email_content, tmp_live,
                   attachment_texts, inflight, seen, analysis_calls,
                   completed, analysis_failed, send_calls,
                   faults>>

SendFailureEscapes == TRUE

\* whether an exception of the SMTP calls leaves send_summary_email
\* (lines 490-491: it does not)
SendFailurePropagates == FALSE

\* the locals of process_new_message after it returned
DropMessageLocals ==
    /\ email_content' = NoContent
    /\ line_items' = <<>>
    /\ added_rows' = <<>>
    /\ errors' = <<>>

\* send_summary_email sent the summary (lines 437-488), line 98 is logged
SendSucceeds ==
    /\ pc = "notify"
    /\ failure' = "none"
    /\ completed' = completed \cup {email_content.id}
    /\ send_calls' = [send_calls EXCEPT ![email_content.id] = @ + 1]
    /\ DropMessageLocals
    /\ EndMessage("completed")
    /\ UNCHANGED <<conn, idle_event, phase, tmp_live, attachment_texts,
                   inflight, seen, worksheet, analysis_calls, ledger_calls,
                   analysis_failed, faults>>

\* connect, starttls, login or sendmail raised
SendFails ==
    /\ pc = "notify"
    /\ failure' = "send"
    /\ IF SendFailurePropagates
       THEN /\ completed' = completed
            /\ EndMessage("aborted")
       ELSE /\ completed' = completed \cup {email_content.id}
            /\ EndMessage("completed")
    /\ send_calls' = [send_calls EXCEPT ![email_content.id] = @ + 1]
    /\ DropMessageLocals
    /\ UNCHANGED <<conn, idle_event, phase, tmp_live, attachment_texts,
                   inflight, seen, worksheet, analysis_calls, ledger_calls,
                   analysis_failed, faults>>

\* whether the record of lines 564-566, of severity CRITICAL, has been
\* logged when the main thread is at p
CriticalLogged(p) == p = "failed"

\* the exit status of the process once the main thread is at p: when
\* listen_for_emails has returned, and when the handler of KeyboardInterrupt
\* has ended, __main__ runs off its end (lines 579-591)
ExitStatus(p) == IF p \in Terminal THEN 0 ELSE -1

Next ==
    \/ ConnectFails
    \/ ConnectSucceeds
    \/ Sleep
    \/ SelectReturns
    \/ SelectRaises
    \/ ClearEvent
    \/ WhileEnter
    \/ WhileLeave
    \/ IdleReturns
    \/ IdleRaises
    \/ NoopOk
    \/ NoopNotOk
    \/ NoopRaises
    \/ SetIdleEvent
    \/ KeyboardInterrupt
    \/ ScanFinds
    \/ ScanFails
    \/ FetchFails
    \/ DecodeRaises
    \/ HeaderRaises
    \/ DecodeReturns
    \/ ExtractAndRequest
    \/ AnalysisReturnsItems
    \/ AnalysisNoJson
    \/ AnalysisRaises
    \/ AddToSpreadsheet
    \/ SendSucceeds
    \/ SendFails

Spec == Init /\ [][Next]_vars

(***************************************************************************)
(* The ledger writer on its own: add_to_spreadsheet is called for the      *)
(* first message of the first scan, with line items over every kind of     *)
(* date and amount the JSON of the reasoning service can carry.            *)
(***************************************************************************)
LedgerDates ==
    {DateIso, DateUnpadded, DateSlashed, DateNoSuchDay, DateEarlyYear,
     DateNull, DateAbsent}

LedgerAmounts ==
    {AmountNumber, AmountNumericString, AmountWords, AmountNull, AmountAbsent}

LedgerResponses ==
    UNION { { [i \in 1..n |-> [date |-> f[i].date, amount |-> f[i].amount,
                               description |-> i]] :
              f \in [1..n -> [date : LedgerDates, amount : LedgerAmounts]] } :
            n \in 0..MaxItems }

LedgerInit ==
    /\ pc = "ledger"
    /\ reconnect_attempts = 0
    /\ mail = 1
    /\ sessions = {1}
    /\ idle_event = FALSE
    /\ phase = "initial"
    /\ seen = {1}
    /\ message_ids = Ascending(Msgs)
    /\ idx = 1
    /\ email_content = [id |-> 1, attachments |-> 0]
    /\ tmp_live = 0
    /\ attachment_texts = <<>>
    /\ inflight = 0
    /\ line_items \in LedgerResponses
    /\ added_rows = <<>>
    /\ errors = <<>>
    /\ worksheet = <<>>
    /\ failure = "none"
    /\ started = <<1>>
    /\ results = <<>>
    /\ consecutive_failures = 0
    /\ analysis_calls = [m \in Msgs |-> IF m = 1 THEN 1 ELSE 0]
    /\ ledger_calls = [m \in Msgs |-> 0]
    /\ completed = {}
    /\ analysis_failed = {}
    /\ send_calls = [m \in Msgs |-> 0]
    /\ faults = 0

LedgerNext == AddToSpreadsheet

LedgerSpec == LedgerInit /\ [][LedgerNext]_vars

(***************************************************************************)
(* Properties.                                                             *)
(***************************************************************************)
IsPrefix(a, b) == Len(a) <= Len(b) /\ SubSeq(b, 1, Len(a)) = a

\* the rows of the items of a response that validate, in the response's order
RECURSIVE ValidRows(_, _)
ValidRows(items, padsYear) ==
    IF items = <<>> THEN <<>>
    ELSE (IF ItemException(Head(items)) = "none"
          THEN <<RowData(Head(items), padsYear)>> ELSE <<>>)
         \o ValidRows(Tail(items), padsYear)

Malformed(items) == {i \in 1..Len(items) : ItemException(items[i]) # "none"}

StoreFailed(errs) == \E i \in 1..Len(errs) : errs[i].exc = "StoreError"

\* C1: the manager is Failed after MAX_RECONNECT_ATTEMPTS consecutive
\* connection failures (once the delay after the last one has passed), and
\* it is not Failed after fewer of them.
C1_ReconnectionBound ==
    /\ consecutive_failures = MAX_RECONNECT_ATTEMPTS => pc \in {"sleep", "failed"}
    /\ pc = "failed" => consecutive_failures = MAX_RECONNECT_ATTEMPTS

\* C2: at most one session is open at any time, and whenever the manager has
\* left a session behind (self.mail is None, or the manager has ended) no
\* session is open.
C2_SessionInvariant ==
    /\ Cardinality(sessions) <= 1
    /\ mail = NoSession => sessions = {}
    /\ pc \in Terminal => mail = NoSession /\ sessions = {}

\* C3: when the store does not fail, add_to_spreadsheet returns one entry
\* per item: the rows of the valid items in their order, and one error for
\* each malformed item.
C3_PartialFailureIsolation ==
    [][(pc = "ledger" /\ pc' = "notify" /\ ~StoreFailed(errors'))
        => /\ \E p \in BOOLEAN : added_rows' = ValidRows(line_items, p)
           /\ Len(errors') = Cardinality(Malformed(line_items))]_vars

\* C4: no temporary attachment file exists once the processing of the
\* message it belongs to has ended.
C4_ResourceCleanup == pc \notin MessagePcs => tmp_live = 0

\* C5: the reasoning service is called at most once for a message and
\* add_to_spreadsheet is called at most once for it, over all scans.
C5_Idempotence ==
    \A m \in Msgs : analysis_calls[m] <= 1 /\ ledger_calls[m] <= 1

\* C6: a message that is marked read has had its line items handed to the
\* ledger writer, or is the message being processed on its way there.
C6_AtLeastOnce ==
    \A m \in seen :
        \/ ledger_calls[m] > 0
        \/ pc \in {"extract", "await", "ledger"} /\ email_content.id = m

\* C7: the messages of a scan are taken up in the order the scan returned
\* them, one is taken up only when the one before it has ended, and at most
\* one request to the reasoning service is in flight.
C7_Sequential ==
    /\ IsPrefix(started, message_ids)
    /\ Len(results) <= Len(started)
    /\ Len(started) <= Len(results) + 1
    /\ pc \in MessagePcs => Len(started) = Len(results) + 1 /\ idx = Len(started)
    /\ inflight <= 1
    /\ inflight = 1 => pc = "await"

C7_Witness ==
    /\ pc = "await"
    /\ inflight = 1
    /\ Len(message_ids) = 2
    /\ started = message_ids
    /\ Len(results) = 1

\* C8: no step of the processing of a message, whatever failed in it, ends
\* the scan before its last message or touches the session: the scan goes
\* on with the next message and returns to the listen loop after the last.
C8_FailureContained ==
    [][(pc \in MessagePcs /\ pc' # "exited")
        => /\ mail' = mail
           /\ sessions' = sessions
           /\ reconnect_attempts' = reconnect_attempts
           /\ message_ids' = message_ids
           /\ pc' \in MessagePcs \cup {AfterScan(phase)}
           /\ pc' \notin MessagePcs => idx = Len(message_ids)
           /\ idx' = idx \/ (idx' = idx + 1 /\ pc' = "fetch")]_vars

C8_Witness ==
    /\ pc = "notify"
    /\ idx = 2
    /\ results = <<"skipped">>
    /\ mail # NoSession

C10_NotificationContained ==
    /\ [](pc = "notify"
            => /\ ledger_calls[email_content.id] >= 1
               /\ Len(added_rows) <= Len(worksheet)
               /\ SubSeq(worksheet, Len(worksheet) - Len(added_rows) + 1,
                         Len(worksheet)) = added_rows)
    /\ [][(pc = "notify" /\ failure' = "send")
            => /\ worksheet' = worksheet
               /\ email_content.id \in completed'
               /\ mail' = mail
               /\ pc' \in {"fetch", AfterScan(phase)}
               /\ pc' = "fetch" <=> idx < Len(message_ids)]_vars

C10_Witness ==
    /\ failure = "send"
    /\ Len(results) = 1
    /\ pc = "fetch"
    /\ worksheet # <<>>
    /\ completed # {}

\* the form YYYY-MM-DD: four digits, two digits, two digits
IsNormalized(d) ==
    /\ Len(d) = 10
    /\ d[5] = "-" /\ d[8] = "-"
    /\ \A k \in {1, 2, 3, 4, 6, 7, 9, 10} : IsDigit(d[k])

\* C11: in every call of add_to_spreadsheet, an item whose date string is in
\* the accepted format has, when it is appended, a row whose date is that
\* date in the form YYYY-MM-DD; an item whose date string is not in the
\* accepted format has an entry in errors and no row in addedRows, and the
\* ledger gains no row for it.
C11_DateValidation ==
    [][(pc = "ledger" /\ pc' = "notify")
        => \A i \in 1..Len(line_items) :
              line_items[i].date.type = "string"
              => LET t == strptime(line_items[i].date.text)
                     rows == {k \in 1..Len(added_rows') :
                                 added_rows'[k].description = i}
                 IN IF t.ok
                    THEN \A k \in rows :
                            /\ IsNormalized(added_rows'[k].date)
                            /\ strptime(added_rows'[k].date) = t
                    ELSE /\ \E e \in 1..Len(errors') :
                               errors'[e].description = i
                         /\ rows = {}
                         /\ Len(worksheet') = Len(worksheet)
                                                 + Len(added_rows')]_vars

\* C12: the reconnect-attempt counter is set back to zero only by the step on
\* which select returns on an authenticated session, and that step starts
\* the scan that precedes the first wait; no other step of the listen loop
\* (a connect whose select is still to come) takes the counter back to zero.
C12_CounterReset ==
    [][/\ (reconnect_attempts # 0 /\ reconnect_attempts' = 0 /\ pc' # "exited")
            => (pc = "select" /\ pc' = "scan")
       /\ (pc = "select" /\ pc' \notin {"sleep", "exited"})
            => (pc' = "scan" /\ phase' = "initial")]_vars

\* C13: when the manager is Failed, the record of critical severity has been
\* logged and the process ends with a status other than zero.
C13_FailedExit ==
    pc = "failed" => (CriticalLogged(pc) /\ ExitStatus(pc) # 0)

\* C14: in the listen loop, a return of the wait call is followed by a scan
\* and the scan by one heartbeat; the wait call is issued from the loop test
\* only, which a successful heartbeat leads back to with the session as it
\* is; a failed heartbeat and an error of the wait call close the session
\* and leave the loop for a new connection attempt.
C14_ListenLoopOrder ==
    [][pc' # "exited"
        => /\ (pc = "idle" /\ pc' # "sleep")
                => (pc' = "scan" /\ phase' = "loop")
           /\ (phase = "loop" /\ pc \in MessagePcs \cup {"scan"}
                 /\ pc' \notin MessagePcs)
                => pc' = "noop"
           /\ pc' = "idle" => (pc = "while" /\ ~idle_event)
           /\ (pc' = "while" /\ pc # "while") => pc \in {"noop", "clear"}
           /\ pc = "noop"
                => \/ pc' = "while" /\ mail' = mail /\ sessions' = sessions
                   \/ /\ pc' \in {"sleep", "connect", "failed"}
                      /\ mail' = NoSession
                      /\ mail \notin sessions'
           /\ (pc = "idle" /\ pc' = "sleep")
                => (mail' = NoSession /\ mail \notin sessions')]_vars

\* C15: a connection attempt that follows a failure (a failed connect, an
\* error in the listen loop, a failed heartbeat) is reached from the delay
\* only, and only while attempts remain; after the delay with no attempt
\* left the manager is Failed.
C15_ReconnectDelay ==
    [][/\ (pc' = "connect" /\ pc \notin {"connect", "while"}) => pc = "sleep"
       /\ (pc = "noop" /\ pc' \notin {"while", "exited"}) => pc' = "sleep"
       /\ (pc = "sleep" /\ pc' # "exited")
            => pc' = (IF reconnect_attempts < MAX_RECONNECT_ATTEMPTS
                      THEN "connect" ELSE "failed")]_vars

\* C16: the step the listen loop takes on finding idle_event set ends the
\* manager: the session is closed, no session stays open, and neither a
\* connection attempt nor a scan follows.
C16_CooperativeShutdown ==
    [][(pc = "while" /\ idle_event /\ pc' \notin {"while", "exited"})
        => /\ pc' \in Terminal
           /\ mail' = NoSession
           /\ sessions' = {}]_vars

\* C17: when the call of the reasoning service raises or its response holds
\* no JSON array that parses, analyze_with_anthropic returns the empty
\* sequence; the message then goes on through the ledger writer, which
\* appends nothing and reports nothing, to its summary and its completion,
\* and no later scan has it analysed again.
C17_AnalysisFailure ==
    [][pc' # "exited"
        => /\ (pc = "await" /\ failure' \in {"nojson", "analysis"})
                => (pc' = "ledger" /\ line_items' = <<>>)
           /\ (pc = "ledger" /\ line_items = <<>>)
                => /\ pc' = "notify"
                   /\ worksheet' = worksheet
                   /\ added_rows' = <<>>
                   /\ errors' = <<>>
           /\ (pc = "notify" /\ email_content.id \in analysis_failed)
                => email_content.id \in completed'
           /\ (pc = "extract" /\ pc' = "await")
                => email_content.id \notin analysis_failed]_vars

C19_HeaderNeverFatal ==
    [][pc = "fetch" => failure' # "header"]_vars

\* C20: whichever attachments fail extraction, the request to the reasoning
\* service is sent, once, with one (filename, text) entry per attachment of
\* the message, in the order of the attachments, each text being the
\* extracted text or a placeholder.
C20_AttachmentContainment ==
    /\ [](pc = "await"
            => /\ Len(attachment_texts) = email_content.attachments
               /\ \A i \in 1..Len(attachment_texts) :
                     /\ attachment_texts[i].filename = i
                     /\ attachment_texts[i].content \in {"text", "placeholder"}
               /\ inflight = 1)
    /\ [][(pc = "extract" /\ pc' # "exited")
            => /\ pc' = "await"
               /\ analysis_calls'[email_content.id]
                     = analysis_calls[email_content.id] + 1]_vars

C20_Witness ==
    /\ pc = "await"
    /\ Len(attachment_texts) = 2
    /\ attachment_texts[1].content = "placeholder"
    /\ attachment_texts[2].content = "text"

\* C21: the ledger changes only in calls of add_to_spreadsheet and only by
\* gaining rows at its end; the rows a call gains are the addedRows it
\* returns, in their order, and an item the call reports in errors has no
\* row among them.
C21_LedgerConsistency ==
    [][/\ IsPrefix(worksheet, worksheet')
       /\ worksheet' # worksheet => (pc = "ledger" /\ pc' = "notify")
       /\ (pc = "ledger" /\ pc' = "notify")
            => /\ worksheet' = worksheet \o added_rows'
               /\ \A e \in 1..Len(errors') :
                     errors'[e].kind = "item"
                     => /\ errors'[e].description \in 1..Len(line_items)
                        /\ \A k \in 1..Len(added_rows') :
                              added_rows'[k].description
                                  # errors'[e].description]_vars

C21_Witness ==
    /\ pc = "notify"
    /\ Len(added_rows) = 1
    /\ Len(errors) = 1
    /\ errors[1].kind = "item"
    /\ Len(worksheet) > Len(added_rows)

\* a message that get_email_content has returned a decoded message for
Decoded(m) ==
    \/ m \in seen
    \/ analysis_calls[m] > 0
    \/ pc = "extract" /\ email_content.id = m

\* C22: send_summary_email is called once for a message whose decoding
\* succeeded, never twice, and not at all for a message that was never
\* decoded; the call follows the return of add_to_spreadsheet for the
\* message, also when there are no line items, and a completed message has
\* had its summary attempted.
C22_OneSummary ==
    /\ \A m \in Msgs :
          /\ send_calls[m] <= 1
          /\ ~Decoded(m) => send_calls[m] = 0
          /\ m \in completed => send_calls[m] = 1
          /\ send_calls[m] <= ledger_calls[m]
    /\ pc = "notify"
          => ledger_calls[email_content.id] = send_calls[email_content.id] + 1
====
